---------------------------- MODULE Spec2Model ----------------------------
(***************************************************************************)
(* Model of the ATS9371 driver's trigger-holdoff register gate             *)
(* (src/ats9371.py) and of the raw acquisition controller                  *)
(* (src/raw_acq_ctrl.py).                                                  *)
(*                                                                         *)
(* Five specifications share the module.  SpecConstruct constructs the     *)
(* driver on any board and then drives the register gate; SpecReg drives   *)
(* the two register operations of a constructed AlazarTechATS9371; SpecAcq *)
(* drives the hooks and the two read accessors of RawAcquisitionController *)
(* over every geometry; SpecCaller drives the same controller at one       *)
(* geometry with a caller that keeps, and writes into, the arrays the      *)
(* accessors returned; SpecPar runs one call of process_buffer with its    *)
(* prange loop shared out among workers.  The actions of one object leave  *)
(* the other objects' variables untouched.                                 *)
(***************************************************************************)
EXTENDS Integers, Sequences, FiniteSets, Bags, TLC

VARIABLES
    firmware,          \* get_idn()["firmware"]: a str or a non-str (None)
    packaging_legacy,  \* the installed packaging predates 22.0 (LegacyVersion)
    reg58,             \* the board's register 58, a 32-bit word
    regLog,            \* register accesses made by the latest call, in order
    ret,               \* what the latest register-gate call did
    alazar,            \* the Alazar instrument's geometry parameters
    retain,            \* how many accessor results the caller keeps hold of
    heap,              \* the ndarray objects alive, by object identity
    buffer,            \* self.buffer: an object identity, 0 for None
    cha_A_buffer,      \* self.cha_A_buffer: 0 while the attribute is not set
    cha_B_buffer,      \* self.cha_B_buffer: 0 while the attribute is not set
    samples_per_record,
    records_per_buffer,
    buffers_per_acquisition,
    phase,             \* where the acquisition driver stands in its sequence
    delivered,         \* buffers handle_buffer took in since pre_start_capture
    held,              \* results of the read accessors the caller still holds
    last,              \* what the latest controller call did
    idn_model,         \* get_idn()["model"]: the board kind the hardware reports
    driver,            \* the AlazarTechATS9371 object: not yet constructed,
                       \* live, or its construction failed
    pb_buffer,         \* process_buffer's argument buffer
    pb_cha_A,          \* process_buffer's argument cha_A
    pb_cha_B,          \* process_buffer's argument cha_B
    pb_n_records,      \* process_buffer's argument n_records
    pb_n_samples,      \* process_buffer's argument n_samples
    pb_pending,        \* iterations of the prange loop no worker has taken yet
    pb_worker,         \* each worker's position in the loop body
    pb_log             \* the array elements the workers have read and written

regVars == <<firmware, packaging_legacy, reg58, regLog, ret>>

acqVars ==
    <<alazar, retain, heap, buffer, cha_A_buffer, cha_B_buffer, samples_per_record,
      records_per_buffer, buffers_per_acquisition, phase, delivered, held,
      last>>

idnVars == <<idn_model, driver>>

parVars ==
    <<pb_buffer, pb_cha_A, pb_cha_B, pb_n_records, pb_n_samples, pb_pending,
      pb_worker, pb_log>>

vars == <<regVars, acqVars, idnVars, parVars>>

(***************************************************************************)
(* 32-bit words.  A word is a function from bit position (0 = low bit) to  *)
(* 0 or 1, so that all 32 bits are kept whatever the value.                *)
(***************************************************************************)
WordBits == 32

HoldoffRegister == 58

HoldoffBit == 26

MinBitmaskLen == 27

BitPositions == 0 .. (WordBits - 1)

WordOf(S) == [i \in BitPositions |-> IF i \in S THEN 1 ELSE 0]

\* 1 << k as np.uint32
ShiftLeftOne(k) == WordOf({k})

BitOr(a, b) == [i \in BitPositions |-> IF a[i] = 1 \/ b[i] = 1 THEN 1 ELSE 0]

BitAnd(a, b) == [i \in BitPositions |-> IF a[i] = 1 /\ b[i] = 1 THEN 1 ELSE 0]

BitInvert(a) == [i \in BitPositions |-> 1 - a[i]]

\* Number of significant bits (Python's int.bit_length)
BitLength(w) ==
    IF \A i \in BitPositions : w[i] = 0 THEN 0
    ELSE 1 + CHOOSE i \in BitPositions :
                 w[i] = 1 /\ \A j \in BitPositions : j > i => w[j] = 0

\* Python's bin(): "0b" followed by the bits, high bit first, leading zeros
\* dropped ("0b0" for zero).  A tuple of one-character strings.
Bin(w) ==
    LET n == IF BitLength(w) = 0 THEN 1 ELSE BitLength(w)
    IN  <<"0", "b">> \o [k \in 1 .. n |-> IF w[n - k] = 1 THEN "1" ELSE "0"]

\* s[2:]
DropTwo(s) == SubSeq(s, 3, Len(s))

\* s[-k] for 1 <= k <= len(s)
FromEnd(s, k) == s[Len(s) - k + 1]

\* bool(s) of a Python str: only the empty string is falsy
PyBoolOfStr(s) == s # ""

(***************************************************************************)
(* Firmware versions.  A firmware value is a record: a str carries its     *)
(* characters, anything else (None) is kind "none".                        *)
(***************************************************************************)
StrVal(chars) == [kind |-> "str", chars |-> chars]

NoneVal == [kind |-> "none", chars |-> <<>>]

IsStr(v) == v.kind = "str"

\* _trigger_holdoff_min_fw_version = '30.04'
trigger_holdoff_min_fw_version == StrVal(<<"3", "0", ".", "0", "4">>)

Digits == {"0", "1", "2", "3", "4", "5", "6", "7", "8", "9"}

DigitVal(c) ==
    CASE c = "0" -> 0 [] c = "1" -> 1 [] c = "2" -> 2 [] c = "3" -> 3
      [] c = "4" -> 4 [] c = "5" -> 5 [] c = "6" -> 6 [] c = "7" -> 7
      [] c = "8" -> 8 [] c = "9" -> 9

InvalidVersion == [valid |-> FALSE, release |-> <<>>]

\* packaging.version.parse on a string over digits, "." and other characters:
\* the release segment [0-9]+(\.[0-9]+)* read as a tuple of integers; anything
\* else in such a string is not a version.
RECURSIVE ParseFrom(_, _, _, _, _)
ParseFrom(chars, i, comps, cur, have) ==
    IF i > Len(chars)
    THEN IF have THEN [valid |-> TRUE, release |-> Append(comps, cur)]
                 ELSE InvalidVersion
    ELSE LET c == chars[i]
         IN  IF c \in Digits
             THEN ParseFrom(chars, i + 1, comps, cur * 10 + DigitVal(c), TRUE)
             ELSE IF c = "." /\ have
                  THEN ParseFrom(chars, i + 1, Append(comps, cur), 0, FALSE)
                  ELSE InvalidVersion

VersionParse(chars) == ParseFrom(chars, 1, <<>>, 0, FALSE)

\* Version._key drops the release's trailing zeros before comparing
RECURSIVE StripTrailingZeros(_)
StripTrailingZeros(t) ==
    IF Len(t) > 0 /\ t[Len(t)] = 0
    THEN StripTrailingZeros(SubSeq(t, 1, Len(t) - 1))
    ELSE t

\* Python's tuple ordering: the first differing component decides, a proper
\* prefix is smaller
RECURSIVE TupleLess(_, _)
TupleLess(a, b) ==
    IF Len(b) = 0 THEN FALSE
    ELSE IF Len(a) = 0 THEN TRUE
    ELSE IF a[1] # b[1] THEN a[1] < b[1]
    ELSE TupleLess(Tail(a), Tail(b))

\* Version.__lt__ on two valid versions
VersionLess(p, q) ==
    TupleLess(StripTrailingZeros(p.release), StripTrailingZeros(q.release))

\* Code points of the characters used in firmware strings
CharCode(c) ==
    IF c = "." THEN 46 ELSE IF c \in Digits THEN 48 + DigitVal(c) ELSE 120

\* Python's str ordering
RECURSIVE StrLess(_, _)
StrLess(a, b) ==
    IF Len(b) = 0 THEN FALSE
    ELSE IF Len(a) = 0 THEN TRUE
    ELSE IF a[1] # b[1] THEN CharCode(a[1]) < CharCode(b[1])
    ELSE StrLess(Tail(a), Tail(b))

\* The firmware gate with the strings compared as strings:
\*   not isinstance(fwversion, str) or fwversion < min_fw_version
FirmwareCheckLexical(fw, legacy) ==
    IF ~IsStr(fw) THEN "below"
    ELSE IF StrLess(fw.chars, <<"3", "0", ".", "0", "4">>) THEN "below" ELSE "ok"

\* not isinstance(fwversion, str) or
\*     version.parse(fwversion) < version.parse(min_fw_version)
\* "below": the condition is true; "ok": it is false; "InvalidVersion":
\* version.parse raised (packaging >= 22).  Before 22.0 an unparseable string
\* is a LegacyVersion, which sorts before every Version.
FirmwareCheck(fw, legacy) ==
    IF ~IsStr(fw) THEN "below"
    ELSE LET p == VersionParse(fw.chars)
             m == VersionParse(trigger_holdoff_min_fw_version.chars)
         IN  IF ~p.valid
             THEN IF legacy THEN "below" ELSE "InvalidVersion"
             ELSE IF VersionLess(p, m) THEN "below" ELSE "ok"

(***************************************************************************)
(* Register accesses                                                       *)
(***************************************************************************)
ReadEvent(w) == [kind |-> "read", addr |-> HoldoffRegister, value |-> w]

WriteEvent(w) == [kind |-> "write", addr |-> HoldoffRegister, value |-> w]

NoError == [type |-> "none", required |-> NoneVal, actual |-> NoneVal]

RuntimeError(fw) ==
    [type |-> "RuntimeError",
     required |-> trigger_holdoff_min_fw_version, actual |-> fw]

InvalidVersionError(fw) ==
    [type |-> "InvalidVersion", required |-> NoneVal, actual |-> fw]

NoCall ==
    [op |-> "none", arg |-> FALSE, outcome |-> "none", value |-> FALSE,
     error |-> NoError, before |-> WordOf({})]

\* The value _get_trigger_holdoff computes from the register word:
\*   bitmask = bin(output)[2:]
\*   if len(bitmask) < 27: return False
\*   return bool(bin(output)[-27])
HoldoffFromWord(output) ==
    LET bitmask == DropTwo(Bin(output))
    IN  IF Len(bitmask) < MinBitmaskLen THEN FALSE
        ELSE PyBoolOfStr(FromEnd(Bin(output), MinBitmaskLen))

BitXor(a, b) == [i \in BitPositions |-> IF a[i] # b[i] THEN 1 ELSE 0]

\* The written word with the bit toggled where the code forces it:
\*   new_value = current_value ^ np.uint32(1 << 26)
NewValueFlip(current_value, value) ==
    BitXor(current_value, ShiftLeftOne(HoldoffBit))

\* The word _set_trigger_holdoff writes: current | (1 << 26) when value is
\* True, current & ~(1 << 26) otherwise
NewValue(current_value, value) ==
    IF value = TRUE
    THEN LET enable_mask == ShiftLeftOne(HoldoffBit)
         IN  BitOr(current_value, enable_mask)
    ELSE LET disable_mask == BitInvert(ShiftLeftOne(HoldoffBit))
         IN  BitAnd(current_value, disable_mask)

(***************************************************************************)
(* Construction of the driver                                              *)
(***************************************************************************)
\* The board kind AlazarTechATS9371.__init__ insists on
SupportedModel == "ATS9371"

NotConstructed == [state |-> "none", error |-> "none", found |-> "none"]

Constructed == [state |-> "live", error |-> "none", found |-> "none"]

\* raise Exception(f"The Alazar board kind is not 'ATS9371', found '{model!s}'
\* instead."): the constructor's caller gets no object
ConstructionFailed(model) ==
    [state |-> "failed", error |-> "Exception", found |-> model]

\* The check with the board's family taken for the board:
\*   if not model.startswith("ATS93"):
ModelMismatchFamily(model) == model \notin {"ATS9371", "ATS9373", "ATS9360"}

\* if model != "ATS9371":
ModelMismatch(model) == model # SupportedModel

\* AlazarTechATS9371.__init__: the base class opens the board, the parameters
\* are added (none of them is given a value through the register gate), and
\* the board kind is checked last
__init__ ==
    /\ driver = NotConstructed
    /\ LET model == idn_model
       IN  driver' = IF ModelMismatch(model) THEN ConstructionFailed(model)
                     ELSE Constructed
    /\ UNCHANGED <<idn_model, regVars, acqVars, parVars>>

\* AlazarTechATS9371._get_trigger_holdoff
get_trigger_holdoff ==
    LET chk == FirmwareCheck(firmware, packaging_legacy)
    IN  /\ driver = Constructed
        /\ CASE chk = "InvalidVersion" ->
                  /\ ret' = [op |-> "get", arg |-> FALSE, outcome |-> "raise",
                             value |-> FALSE,
                             error |-> InvalidVersionError(firmware),
                             before |-> reg58]
                  /\ regLog' = <<>>
             [] chk = "below" ->
                  /\ ret' = [op |-> "get", arg |-> FALSE, outcome |-> "return",
                             value |-> FALSE, error |-> NoError,
                             before |-> reg58]
                  /\ regLog' = <<>>
             [] chk = "ok" ->
                  /\ ret' = [op |-> "get", arg |-> FALSE, outcome |-> "return",
                             value |-> HoldoffFromWord(reg58),
                             error |-> NoError, before |-> reg58]
                  /\ regLog' = <<ReadEvent(reg58)>>
        /\ UNCHANGED <<firmware, packaging_legacy, reg58>>
        /\ UNCHANGED acqVars
        /\ UNCHANGED <<idnVars, parVars>>

\* AlazarTechATS9371._set_trigger_holdoff
set_trigger_holdoff(value) ==
    LET chk == FirmwareCheck(firmware, packaging_legacy)
    IN  /\ driver = Constructed
        /\ CASE chk = "InvalidVersion" ->
                  /\ ret' = [op |-> "set", arg |-> value, outcome |-> "raise",
                             value |-> FALSE,
                             error |-> InvalidVersionError(firmware),
                             before |-> reg58]
                  /\ regLog' = <<>>
                  /\ reg58' = reg58
             [] chk = "below" ->
                  /\ ret' = [op |-> "set", arg |-> value, outcome |-> "raise",
                             value |-> FALSE, error |-> RuntimeError(firmware),
                             before |-> reg58]
                  /\ regLog' = <<>>
                  /\ reg58' = reg58
             [] chk = "ok" ->
                  LET current_value == reg58
                      new_value == NewValue(current_value, value)
                  IN  /\ ret' = [op |-> "set", arg |-> value,
                                 outcome |-> "return", value |-> FALSE,
                                 error |-> NoError, before |-> reg58]
                      /\ regLog' = <<ReadEvent(current_value),
                                     WriteEvent(new_value)>>
                      /\ reg58' = new_value
        /\ UNCHANGED <<firmware, packaging_legacy>>
        /\ UNCHANGED acqVars
        /\ UNCHANGED <<idnVars, parVars>>

(***************************************************************************)
(* Inputs of the register gate                                             *)
(***************************************************************************)
\* Register words: every combination of a low bit, the bit below the holdoff
\* bit, the holdoff bit, the bit above it and the top bit.
RegisterSamples == {WordOf(S) : S \in SUBSET {0, 25, 26, 27, 31}}

\* Firmware values: absent, at / above / below the minimum (with cases where
\* numeric and lexical order disagree), and unparseable strings.
FirmwareSamples ==
    { NoneVal,
      StrVal(<<"3", "0", ".", "0", "4">>),
      StrVal(<<"3", "0", ".", "4">>),
      StrVal(<<"3", "0", ".", "0", "3">>),
      StrVal(<<"3", "0", ".", "1", "0">>),
      StrVal(<<"2", "9", ".", "1", "0">>),
      StrVal(<<"4", ".", "5">>),
      StrVal(<<"1", "0", "0", ".", "0">>),
      StrVal(<<"3", "0">>),
      StrVal(<<"3", "1">>),
      StrVal(<<"3", "0", ".", "0", "4", ".", "0">>),
      StrVal(<<>>),
      StrVal(<<"x">>),
      StrVal(<<"3", "0", ".">>),
      StrVal(<<"3", "0", ".", "x">>) }

(***************************************************************************)
(* ndarrays.  An array is its shape and its elements in C order, indexed   *)
(* from 0 as in the source.  Raw elements are float64 holding whole        *)
(* numbers and are kept as integers; a converted element is kept as the    *)
(* exact quotient num / den of the operations that made it.                *)
(***************************************************************************)
MaxRecords == 2

MaxSamples == 2

MaxDeliveries == 2

MaxHeld == 2

number_of_channels == 2

OffsetCode == 32760

ScaleDivisor == 81900

RECURSIVE Product(_)
Product(shape) ==
    IF Len(shape) = 0 THEN 1 ELSE shape[1] * Product(Tail(shape))

Size(arr) == Product(arr.shape)

FloatOf(n) == [num |-> n, den |-> 1]

\* np.zeros(n): the raw accumulator
ZerosRaw(n) == [shape |-> <<n>>, data |-> [k \in 0 .. (n - 1) |-> 0]]

\* The two dimensions taken in the other order: np.zeros((cols, rows))
Zeros2DTransposed(rows, cols) ==
    [shape |-> <<cols, rows>>,
     data |-> [k \in 0 .. (rows * cols - 1) |-> FloatOf(0)]]

\* np.zeros((rows, cols))
Zeros2D(rows, cols) ==
    [shape |-> <<rows, cols>>,
     data |-> [k \in 0 .. (rows * cols - 1) |-> FloatOf(0)]]

\* x / 81900.0
DivideByScale(x) == [num |-> x.num, den |-> x.den * ScaleDivisor]

\* (x - 32760) / 81900.0, as process_buffer and signal_to_volt compute it
signal_to_volt(signal) == DivideByScale(FloatOf(signal - OffsetCode))

\* ndarray.reshape(d0, -1, 2) of a one-dimensional array: numpy derives the
\* unknown dimension from the size and refuses when the known dimensions
\* multiply to 0 or do not divide the size.
Reshape(arr, d0, d2) ==
    LET known == d0 * d2
    IN  IF known = 0 \/ Size(arr) % known # 0
        THEN [error |-> "ValueError", shape |-> <<>>, data |-> arr.data]
        ELSE [error |-> "none",
              shape |-> <<d0, Size(arr) \div known, d2>>,
              data |-> arr.data]

\* reshaped[:, :, c]: a two-dimensional view of a three-dimensional array
ChannelView(reshaped, c) ==
    LET rows == reshaped.shape[1]
        cols == reshaped.shape[2]
        chans == reshaped.shape[3]
    IN  [shape |-> <<rows, cols>>,
         data |-> [k \in 0 .. (rows * cols - 1) |->
                      reshaped.data[((k \div cols) * cols + (k % cols)) * chans + c]]]

\* np.subtract(view, 32760, out=out); out /= 81900.0
SubtractDivideInto(view, out) ==
    LET subtracted == [k \in DOMAIN out.data |-> FloatOf(view.data[k] - OffsetCode)]
    IN  [shape |-> out.shape,
         data |-> [k \in DOMAIN out.data |-> DivideByScale(subtracted[k])]]

\* The index with the stride applied to the sample alone:
\*   i = r * n_samples + s * 2
RawIndexNoStride(r, s, n_samples) == r * n_samples + s * 2

\* i = (r * n_samples + s) * 2
RawIndex(r, s, n_samples) == (r * n_samples + s) * 2

\* process_buffer, one output array: for r in prange(n_records), for s in
\* range(n_samples): cha[r, s] = (buffer[i + offset] - 32760) / 81900.0
\* (offset 0 for cha_A, 1 for cha_B).  Cells outside the loops keep their
\* value.
ProcessBuffer(buf, cha, offset, n_records, n_samples) ==
    LET cols == cha.shape[2]
    IN  [shape |-> cha.shape,
         data |-> [k \in DOMAIN cha.data |->
                      LET r == k \div cols
                          s == k % cols
                      IN  IF r < n_records /\ s < n_samples
                          THEN signal_to_volt(
                                   buf.data[RawIndex(r, s, n_samples) + offset])
                          ELSE cha.data[k]]]

(***************************************************************************)
(* The heap                                                                *)
(***************************************************************************)
NewId(h) ==
    CHOOSE i \in 1 .. (Cardinality(DOMAIN h) + 1) :
        i \notin DOMAIN h /\ \A j \in 1 .. (i - 1) : j \in DOMAIN h

\* The identities a sequence of held results refers to, in order
RECURSIVE HeldRefs(_)
HeldRefs(hs) ==
    IF Len(hs) = 0 THEN <<>> ELSE <<hs[1].a, hs[1].b>> \o HeldRefs(Tail(hs))

RECURSIVE Distinct(_, _)
Distinct(ids, seen) ==
    IF Len(ids) = 0 THEN <<>>
    ELSE IF ids[1] \in seen THEN Distinct(Tail(ids), seen)
    ELSE <<ids[1]>> \o Distinct(Tail(ids), seen \cup {ids[1]})

PositionIn(order, id) == CHOOSE i \in 1 .. Len(order) : order[i] = id

\* Objects nothing refers to are freed.  An identity is only a name, so the
\* live objects are named 1, 2, ... in the order self.buffer,
\* self.cha_A_buffer, self.cha_B_buffer, then the held results.
Live(h, buf, a, b, hs) ==
    LET order == Distinct(<<buf, a, b>> \o HeldRefs(hs), {0})
    IN  [heap |-> [i \in 1 .. Len(order) |-> h[order[i]]],
         buffer |-> PositionIn(order, buf),
         cha_A_buffer |-> PositionIn(order, a),
         cha_B_buffer |-> PositionIn(order, b),
         held |-> [i \in 1 .. Len(hs) |->
                      [hs[i] EXCEPT !.a = PositionIn(order, @),
                                    !.b = PositionIn(order, @)]]]

\* The caller keeps the latest results, as many as it retains
Window(hs) ==
    IF Len(hs) > retain THEN SubSeq(hs, Len(hs) - retain + 1, Len(hs)) ELSE hs

Call(op, outcome, error, target) ==
    [op |-> op, outcome |-> outcome, error |-> error, target |-> target]

(***************************************************************************)
(* RawAcquisitionController                                                *)
(***************************************************************************)
\* The subtraction done into the raw view instead of the channel buffer:
\*   np.subtract(cha_A_raw, 32760, out=cha_A_raw)
NumpyConvertInPlace(h) ==
    IF buffer = 0 THEN [error |-> "AttributeError", heap |-> h]
    ELSE LET reshaped == Reshape(h[buffer], records_per_buffer, 2)
         IN  IF reshaped.error # "none"
             THEN [error |-> reshaped.error, heap |-> h]
             ELSE LET cha_A_raw == ChannelView(reshaped, 0)
                      cha_B_raw == ChannelView(reshaped, 1)
                  IN  [error |-> "none",
                       heap |-> [h EXCEPT
                         ![cha_A_buffer] = SubtractDivideInto(cha_A_raw, @),
                         ![cha_B_buffer] = SubtractDivideInto(cha_B_raw, @),
                         ![buffer] = [shape |-> @.shape,
                                      data |-> [k \in DOMAIN @.data |->
                                                   @.data[k] - OffsetCode]]]]

\* numpy_get_alldata_from_buffer_in_volt up to its return statement: the
\* error raised, or the heap with both channel buffers rewritten
NumpyConvert(h) ==
    IF buffer = 0 THEN [error |-> "AttributeError", heap |-> h]
    ELSE LET reshaped == Reshape(h[buffer], records_per_buffer, 2)
         IN  IF reshaped.error # "none"
             THEN [error |-> reshaped.error, heap |-> h]
             ELSE LET cha_A_raw == ChannelView(reshaped, 0)
                      cha_B_raw == ChannelView(reshaped, 1)
                  IN  IF cha_A_raw.shape # h[cha_A_buffer].shape
                      THEN [error |-> "ValueError", heap |-> h]
                      ELSE [error |-> "none",
                            heap |-> [h EXCEPT
                              ![cha_A_buffer] = SubtractDivideInto(cha_A_raw, @),
                              ![cha_B_buffer] = SubtractDivideInto(cha_B_raw, @)]]

\* numba_get_alldata_from_buffer_in_volt up to its return statement
NumbaConvert(h) ==
    IF cha_A_buffer = 0 THEN [error |-> "AttributeError", heap |-> h]
    ELSE [error |-> "none",
          heap |-> [h EXCEPT
            ![cha_A_buffer] = ProcessBuffer(h[buffer], @, 0,
                                  records_per_buffer, samples_per_record),
            ![cha_B_buffer] = ProcessBuffer(h[buffer], @, 1,
                                  records_per_buffer, samples_per_record)]]

Convert(strategy, h) ==
    IF strategy = "numpy" THEN NumpyConvert(h) ELSE NumbaConvert(h)

ReturnArraysAlwaysCopy(h, copy) ==
    LET ia == NewId(h)
        h1 == h @@ (ia :> h[cha_A_buffer])
        ib == NewId(h1)
    IN  [heap |-> h1 @@ (ib :> h[cha_B_buffer]), a |-> ia, b |-> ib]

ReturnArraysNeverCopy(h, copy) ==
    [heap |-> h, a |-> cha_A_buffer, b |-> cha_B_buffer]

\* if copy: return self.cha_A_buffer.copy(), self.cha_B_buffer.copy()
\* else:    return self.cha_A_buffer, self.cha_B_buffer
ReturnArrays(h, copy) ==
    IF copy
    THEN LET ia == NewId(h)
             h1 == h @@ (ia :> h[cha_A_buffer])
             ib == NewId(h1)
         IN  [heap |-> h1 @@ (ib :> h[cha_B_buffer]), a |-> ia, b |-> ib]
    ELSE [heap |-> h, a |-> cha_A_buffer, b |-> cha_B_buffer]

\* numpy_get_alldata_from_buffer_in_volt / numba_get_alldata_from_buffer_in_volt
get_alldata_from_buffer_in_volt(strategy, copy) ==
    LET conv == Convert(strategy, heap)
    IN  IF conv.error # "none"
        THEN /\ last' = Call(strategy, "raise", conv.error, 0)
             /\ UNCHANGED <<heap, held>>
        ELSE LET r == ReturnArrays(conv.heap, copy)
                 kept == Window(Append(held,
                             [a |-> r.a, b |-> r.b, copy |-> copy,
                              stale |-> FALSE, latest |-> TRUE]))
                 live == Live(r.heap, buffer, cha_A_buffer, cha_B_buffer, kept)
             IN  /\ heap' = live.heap
                 /\ held' = live.held
                 /\ last' = Call(strategy, "return", "none", 0)

numpy_get_alldata_from_buffer_in_volt(copy) ==
    /\ get_alldata_from_buffer_in_volt("numpy", copy)
    /\ UNCHANGED <<alazar, retain, buffer, cha_A_buffer, cha_B_buffer,
                   samples_per_record,
                   records_per_buffer, buffers_per_acquisition, phase,
                   delivered>>
    /\ UNCHANGED regVars
    /\ UNCHANGED <<idnVars, parVars>>

numba_get_alldata_from_buffer_in_volt(copy) ==
    /\ get_alldata_from_buffer_in_volt("numba", copy)
    /\ UNCHANGED <<alazar, retain, buffer, cha_A_buffer, cha_B_buffer,
                   samples_per_record,
                   records_per_buffer, buffers_per_acquisition, phase,
                   delivered>>
    /\ UNCHANGED regVars
    /\ UNCHANGED <<idnVars, parVars>>

\* pre_start_capture: the geometry is read from the Alazar instrument's
\* parameters, then the three buffers are allocated anew
pre_start_capture ==
    /\ LET spr == alazar.samples_per_record
           rpb == alazar.records_per_buffer
           n == spr * rpb * number_of_channels
           ib == NewId(heap)
           h1 == heap @@ (ib :> ZerosRaw(n))
           ia == NewId(h1)
           h2 == h1 @@ (ia :> Zeros2D(rpb, spr))
           ic == NewId(h2)
           h3 == h2 @@ (ic :> Zeros2D(rpb, spr))
           live == Live(h3, ib, ia, ic,
                        [i \in 1 .. Len(held) |-> [held[i] EXCEPT !.stale = TRUE]])
       IN  /\ heap' = live.heap
           /\ buffer' = live.buffer
           /\ cha_A_buffer' = live.cha_A_buffer
           /\ cha_B_buffer' = live.cha_B_buffer
           /\ held' = live.held
    /\ samples_per_record' = alazar.samples_per_record
    /\ records_per_buffer' = alazar.records_per_buffer
    /\ buffers_per_acquisition' = alazar.buffers_per_acquisition
    /\ phase' = "Prepared"
    /\ delivered' = EmptyBag
    /\ last' = Call("pre_start_capture", "return", "none", 0)
    /\ UNCHANGED <<alazar, retain>>
    /\ UNCHANGED regVars
    /\ UNCHANGED <<idnVars, parVars>>

\* pre_acquire: pass
pre_acquire ==
    /\ phase = "Prepared"
    /\ phase' = "Acquiring"
    /\ last' = Call("pre_acquire", "return", "none", 0)
    /\ UNCHANGED <<alazar, retain, heap, buffer, cha_A_buffer, cha_B_buffer,
                   samples_per_record,
                   records_per_buffer, buffers_per_acquisition, delivered,
                   held>>
    /\ UNCHANGED regVars
    /\ UNCHANGED <<idnVars, parVars>>

\* post_acquire: pass
post_acquire ==
    /\ phase = "Acquiring"
    /\ phase' = "Finalized"
    /\ last' = Call("post_acquire", "return", "none", 0)
    /\ UNCHANGED <<alazar, retain, heap, buffer, cha_A_buffer, cha_B_buffer,
                   samples_per_record,
                   records_per_buffer, buffers_per_acquisition, delivered,
                   held>>
    /\ UNCHANGED regVars
    /\ UNCHANGED <<idnVars, parVars>>

\* numpy broadcasting of a one-dimensional operand to a one-dimensional
\* in-place target: equal lengths, or an operand of length 1
Broadcastable(operand, target) ==
    operand.shape = target.shape \/ operand.shape = <<1>>

AccumulateOverwrite(raw, d) ==
    [shape |-> raw.shape,
     data |-> [k \in DOMAIN raw.data |->
                  IF d.shape = <<1>> THEN d.data[0] ELSE d.data[k]]]

\* self.buffer += buffer
Accumulate(raw, d) ==
    [shape |-> raw.shape,
     data |-> [k \in DOMAIN raw.data |->
                  raw.data[k] + (IF d.shape = <<1>> THEN d.data[0] ELSE d.data[k])]]

\* handle_buffer(buffer, buffer_number)
handle_buffer(d, buffer_number) ==
    /\ BagCardinality(delivered) < MaxDeliveries
    /\ IF buffer = 0
       THEN \* assert self.buffer is not None
            /\ last' = Call("handle_buffer", "raise", "AssertionError", 0)
            /\ UNCHANGED <<heap, delivered, held>>
       ELSE IF ~Broadcastable(d, heap[buffer])
       THEN /\ last' = Call("handle_buffer", "raise", "ValueError", 0)
            /\ UNCHANGED <<heap, delivered, held>>
       ELSE /\ heap' = [heap EXCEPT ![buffer] = Accumulate(@, d)]
            /\ delivered' = delivered (+) SetToBag({d})
            /\ held' = [i \in 1 .. Len(held) |-> [held[i] EXCEPT !.latest = FALSE]]
            /\ last' = Call("handle_buffer", "return", "none", 0)
    /\ UNCHANGED <<alazar, retain, buffer, cha_A_buffer, cha_B_buffer,
                   samples_per_record,
                   records_per_buffer, buffers_per_acquisition, phase>>
    /\ UNCHANGED regVars
    /\ UNCHANGED <<idnVars, parVars>>

\* The instrument's geometry parameters are set to other values
configure(setting) ==
    /\ alazar' = setting
    /\ alazar' # alazar
    /\ last' = Call("configure", "return", "none", 0)
    /\ UNCHANGED <<retain, heap, buffer, cha_A_buffer, cha_B_buffer,
                   samples_per_record, records_per_buffer,
                   buffers_per_acquisition, phase, delivered, held>>
    /\ UNCHANGED regVars
    /\ UNCHANGED <<idnVars, parVars>>

\* The caller stores a value into the first element of both arrays of a
\* result it holds
caller_write(i) ==
    /\ i \in 1 .. Len(held)
    /\ Size(heap[held[i].a]) > 0
    /\ heap' = [heap EXCEPT ![held[i].a].data[0] = FloatOf(1),
                            ![held[i].b].data[0] = FloatOf(1)]
    /\ last' = Call("caller_write", "return", "none", i)
    /\ UNCHANGED <<alazar, retain, buffer, cha_A_buffer, cha_B_buffer,
                   samples_per_record, records_per_buffer,
                   buffers_per_acquisition, phase, delivered, held>>
    /\ UNCHANGED regVars
    /\ UNCHANGED <<idnVars, parVars>>

(***************************************************************************)
(* process_buffer under numba's parallel=True.  The iterations of          *)
(*   for r in numba.prange(n_records)                                      *)
(* are handed to the workers by numba's scheduler, each iteration to one   *)
(* worker; a worker runs the inner loop of its iteration in order, and the *)
(* workers' statements interleave in any way.  r, s and i are private to   *)
(* the worker running the iteration.                                       *)
(***************************************************************************)
NumWorkers == 2

Workers == 1 .. NumWorkers

IdleWorker == [at |-> "idle", r |-> 0, s |-> 0]

ReadOf(w, r, i) ==
    [worker |-> w, r |-> r, kind |-> "read", array |-> "buffer", index |-> i]

WriteOf(w, r, array, k) ==
    [worker |-> w, r |-> r, kind |-> "write", array |-> array, index |-> k]

\* Every worker stores into row 0:  cha[0, s]
CellOfFirstRow(r, s, cols) == s

\* cha[r, s]: the element of a two-dimensional C-order array
CellOf(r, s, cols) == r * cols + s

\* The scheduler hands iteration r to an idle worker
prange(w, r) ==
    /\ pb_worker[w] = IdleWorker
    /\ r \in pb_pending
    /\ pb_pending' = pb_pending \ {r}
    /\ pb_worker' = [pb_worker EXCEPT ![w] =
                         IF pb_n_samples > 0
                         THEN [at |-> "cha_A", r |-> r, s |-> 0]
                         ELSE IdleWorker]
    /\ UNCHANGED <<pb_buffer, pb_cha_A, pb_cha_B, pb_n_records, pb_n_samples,
                   pb_log>>
    /\ UNCHANGED <<regVars, acqVars, idnVars>>

\* i = (r * n_samples + s) * 2
\* cha_A[r, s] = (buffer[i] - 32760) / 81900.0
store_cha_A(w) ==
    /\ pb_worker[w].at = "cha_A"
    /\ LET r == pb_worker[w].r
           s == pb_worker[w].s
           i == RawIndex(r, s, pb_n_samples)
           k == CellOf(r, s, pb_cha_A.shape[2])
       IN  /\ pb_cha_A' = [pb_cha_A EXCEPT
                               !.data[k] = signal_to_volt(pb_buffer.data[i])]
           /\ pb_log' = pb_log \cup {ReadOf(w, r, i), WriteOf(w, r, "cha_A", k)}
    /\ pb_worker' = [pb_worker EXCEPT ![w].at = "cha_B"]
    /\ UNCHANGED <<pb_buffer, pb_cha_B, pb_n_records, pb_n_samples, pb_pending>>
    /\ UNCHANGED <<regVars, acqVars, idnVars>>

\* cha_B[r, s] = (buffer[i + 1] - 32760) / 81900.0, then the next s, or the
\* end of the iteration
store_cha_B(w) ==
    /\ pb_worker[w].at = "cha_B"
    /\ LET r == pb_worker[w].r
           s == pb_worker[w].s
           i == RawIndex(r, s, pb_n_samples)
           k == CellOf(r, s, pb_cha_B.shape[2])
       IN  /\ pb_cha_B' = [pb_cha_B EXCEPT
                               !.data[k] = signal_to_volt(pb_buffer.data[i + 1])]
           /\ pb_log' = pb_log \cup
                            {ReadOf(w, r, i + 1), WriteOf(w, r, "cha_B", k)}
           /\ pb_worker' = [pb_worker EXCEPT ![w] =
                                IF s + 1 < pb_n_samples
                                THEN [at |-> "cha_A", r |-> r, s |-> s + 1]
                                ELSE IdleWorker]
    /\ UNCHANGED <<pb_buffer, pb_cha_A, pb_n_records, pb_n_samples, pb_pending>>
    /\ UNCHANGED <<regVars, acqVars, idnVars>>

(***************************************************************************)
(* Inputs of the controller                                                *)
(***************************************************************************)
\* What the instrument's geometry getters return.  The driver admits
\* samples_per_record in multiples of 128 from 256 up; the controller's
\* arithmetic never looks at that divisor, so the record length is scaled
\* down to 1 .. MaxSamples.  records_per_buffer keeps its admitted minimum 0.
SamplesPerRecordValues == 1 .. MaxSamples

\* validators.Ints(min_value=0)
RecordsPerBufferValues == 0 .. MaxRecords

BuffersPerAcquisitionValues == {MaxDeliveries}

AlazarSettings ==
    [samples_per_record : SamplesPerRecordValues,
     records_per_buffer : RecordsPerBufferValues,
     buffers_per_acquisition : BuffersPerAcquisitionValues]

\* [32760, 32760, 32840, 32680, 32920, 32600, ...]
PatternA(n) ==
    [shape |-> <<n>>,
     data |-> [k \in 0 .. (n - 1) |->
                  OffsetCode + (IF k % 2 = 0 THEN 80 ELSE -80) * (k \div 2)]]

\* [16, 32, 48, ...]
PatternB(n) ==
    [shape |-> <<n>>, data |-> [k \in 0 .. (n - 1) |-> 16 * (k + 1)]]

\* Buffers handed to handle_buffer: two of the length the geometry gives, one
\* of length 1 and one that is one element too long
DeliveredBuffers ==
    LET n == samples_per_record * records_per_buffer * number_of_channels
    IN  {PatternA(n), PatternB(n), PatternB(1), PatternB(n + 1)}

\* The caller specification's inputs: the largest geometry, well-formed
\* buffers
CallerSettings ==
    {x \in AlazarSettings : /\ x.samples_per_record = MaxSamples
                             /\ x.records_per_buffer = MaxRecords}

CallerBuffers ==
    {PatternA(samples_per_record * records_per_buffer * number_of_channels)}

BufferNumbers == 0 .. 1

InitAcq ==
    /\ heap = <<>>
    /\ buffer = 0
    /\ cha_A_buffer = 0
    /\ cha_B_buffer = 0
    /\ samples_per_record = 0
    /\ records_per_buffer = 0
    /\ buffers_per_acquisition = 0
    /\ phase = "Idle"
    /\ delivered = EmptyBag
    /\ held = <<>>
    /\ last = Call("__init__", "return", "none", 0)

\* No process_buffer call is under way
IdlePar ==
    /\ pb_buffer = ZerosRaw(0)
    /\ pb_cha_A = Zeros2D(0, 0)
    /\ pb_cha_B = Zeros2D(0, 0)
    /\ pb_n_records = 0
    /\ pb_n_samples = 0
    /\ pb_pending = {}
    /\ pb_worker = [w \in Workers |-> IdleWorker]
    /\ pb_log = {}

\* The driver object exists: its construction went through
LiveDriver == idn_model = SupportedModel /\ driver = Constructed

InitReg ==
    /\ firmware \in FirmwareSamples
    /\ packaging_legacy \in BOOLEAN
    /\ reg58 \in RegisterSamples
    /\ regLog = <<>>
    /\ ret = NoCall

\* The register gate alone, beside a controller that is never started
Init ==
    /\ InitReg /\ LiveDriver
    /\ InitAcq /\ alazar \in CallerSettings /\ retain = 0
    /\ IdlePar

NextReg ==
    \/ get_trigger_holdoff
    \/ \E value \in BOOLEAN : set_trigger_holdoff(value)

SpecReg == Init /\ [][NextReg]_vars

\* The register gate left idle beside the controller
IdleReg ==
    /\ LiveDriver
    /\ firmware = NoneVal
    /\ packaging_legacy = FALSE
    /\ reg58 = WordOf({})
    /\ regLog = <<>>
    /\ ret = NoCall

\* The acquisition driver's sequence, the read accessors called at any point,
\* the instrument reconfigured at any point; no result is kept by the caller.
InitDriver ==
    /\ IdleReg /\ IdlePar
    /\ InitAcq /\ alazar \in AlazarSettings /\ retain = 0

NextAcq ==
    \/ \E setting \in AlazarSettings : configure(setting)
    \/ pre_start_capture
    \/ pre_acquire
    \/ \E d \in DeliveredBuffers, n \in BufferNumbers : handle_buffer(d, n)
    \/ post_acquire
    \/ \E copy \in BOOLEAN : numpy_get_alldata_from_buffer_in_volt(copy)
    \/ \E copy \in BOOLEAN : numba_get_alldata_from_buffer_in_volt(copy)

SpecAcq == InitDriver /\ [][NextAcq]_vars

\* A caller that keeps the results of the read accessors and writes into
\* them, across deliveries and sessions of one geometry.
InitCaller ==
    /\ IdleReg /\ IdlePar
    /\ InitAcq /\ alazar \in CallerSettings /\ retain = MaxHeld

NextCaller ==
    \/ pre_start_capture
    \/ \E d \in CallerBuffers, n \in BufferNumbers : handle_buffer(d, n)
    \/ \E copy \in BOOLEAN : numpy_get_alldata_from_buffer_in_volt(copy)
    \/ \E copy \in BOOLEAN : numba_get_alldata_from_buffer_in_volt(copy)
    \/ \E i \in 1 .. MaxHeld : caller_write(i)

SpecCaller == InitCaller /\ [][NextCaller]_vars

\* The board kinds a hardware identity may report
ModelSamples == {"ATS9371", "ATS9360", "ATS9373", "ats9371", "ATS9371A", ""}

\* Construction on any board, then the register gate on the object
InitConstruct ==
    /\ InitReg
    /\ idn_model \in ModelSamples
    /\ driver = NotConstructed
    /\ InitAcq /\ alazar \in CallerSettings /\ retain = 0
    /\ IdlePar

NextConstruct ==
    \/ __init__
    \/ get_trigger_holdoff
    \/ \E value \in BOOLEAN : set_trigger_holdoff(value)

SpecConstruct == InitConstruct /\ [][NextConstruct]_vars

\* The channel arrays process_buffer is given: fresh from pre_start_capture,
\* or holding values from before
UsedChannel(rows, cols) ==
    [shape |-> <<rows, cols>>,
     data |-> [k \in 0 .. (rows * cols - 1) |-> FloatOf(1)]]

\* One call process_buffer(self.buffer, self.cha_A_buffer, self.cha_B_buffer,
\* self.records_per_buffer, self.samples_per_record), from its entry to the
\* end of the prange loop
InitPar ==
    /\ IdleReg
    /\ InitAcq /\ alazar \in CallerSettings /\ retain = 0
    /\ pb_n_records \in RecordsPerBufferValues
    /\ pb_n_samples \in SamplesPerRecordValues
    /\ pb_buffer \in
           LET n == pb_n_samples * pb_n_records * number_of_channels
           IN  {PatternA(n), PatternB(n)}
    /\ \E fresh \in BOOLEAN :
           LET cha == IF fresh THEN Zeros2D(pb_n_records, pb_n_samples)
                      ELSE UsedChannel(pb_n_records, pb_n_samples)
           IN  pb_cha_A = cha /\ pb_cha_B = cha
    /\ pb_pending = 0 .. (pb_n_records - 1)
    /\ pb_worker = [w \in Workers |-> IdleWorker]
    /\ pb_log = {}

NextPar ==
    \/ \E w \in Workers, r \in 0 .. (MaxRecords - 1) : prange(w, r)
    \/ \E w \in Workers : store_cha_A(w)
    \/ \E w \in Workers : store_cha_B(w)

SpecPar == InitPar /\ [][NextPar]_vars

(***************************************************************************)
(* Claims about the register gate (checked under SpecReg)                  *)
(***************************************************************************)
\* The firmware samples by what they are, written out independently of the
\* version comparison above.
SupportedFirmware ==
    { StrVal(<<"3", "0", ".", "0", "4">>),
      StrVal(<<"3", "0", ".", "4">>),
      StrVal(<<"3", "0", ".", "1", "0">>),
      StrVal(<<"1", "0", "0", ".", "0">>),
      StrVal(<<"3", "1">>),
      StrVal(<<"3", "0", ".", "0", "4", ".", "0">>) }

BelowMinimumFirmware ==
    { StrVal(<<"3", "0", ".", "0", "3">>),
      StrVal(<<"2", "9", ".", "1", "0">>),
      StrVal(<<"4", ".", "5">>),
      StrVal(<<"3", "0">>) }

MalformedFirmware ==
    { StrVal(<<>>),
      StrVal(<<"x">>),
      StrVal(<<"3", "0", ".">>),
      StrVal(<<"3", "0", ".", "x">>) }

\* C1: with supported firmware, getTriggerHoldoff returns true exactly when
\* bit 26 of the word read from register 58 is set (false when only higher
\* bits are set, false when the word has fewer than 27 significant bits).
C1_GetReturnsBit26 ==
    (ret.op = "get" /\ firmware \in SupportedFirmware)
        => /\ ret.outcome = "return"
           /\ ret.value = (reg58[HoldoffBit] = 1)

\* C2: getTriggerHoldoff returns false, without raising and without any
\* access to register 58, when the firmware version is absent, malformed or
\* below "30.04".
C2_GetFalseWithoutRegister ==
    (ret.op = "get"
        /\ (~IsStr(firmware) \/ firmware \in MalformedFirmware
                             \/ firmware \in BelowMinimumFirmware))
        => /\ ret.outcome = "return"
           /\ ret.value = FALSE
           /\ regLog = <<>>

\* C3: with supported firmware, setTriggerHoldoff(value) reads register 58
\* once, then writes it once; the written word is the word read with bit 26
\* forced to value and the other 31 bits unchanged, also when bit 26 already
\* had the requested value.  true on 0x00000000 writes 0x04000000, false on
\* 0x04000000 writes 0x00000000.
C3_SetReadModifyWrite ==
    (ret.op = "set" /\ firmware \in SupportedFirmware)
        => /\ ret.outcome = "return"
           /\ Len(regLog) = 2
           /\ regLog[1] = [kind |-> "read", addr |-> 58, value |-> ret.before]
           /\ regLog[2].kind = "write"
           /\ regLog[2].addr = 58
           /\ \A i \in 0 .. 31 :
                  regLog[2].value[i] =
                      IF i = 26 THEN (IF ret.arg THEN 1 ELSE 0)
                                ELSE ret.before[i]
           /\ reg58 = regLog[2].value
           /\ (ret.arg /\ ret.before = WordOf({})) => reg58 = WordOf({26})
           /\ (~ret.arg /\ ret.before = WordOf({26})) => reg58 = WordOf({})

\* setTriggerHoldoff(true) has run on a register whose bit 26 was already set
\* (with the bits around it and the top bit set too) and has written it back.
C3_Witness ==
    /\ ret.op = "set"
    /\ firmware \in SupportedFirmware
    /\ ret.arg = TRUE
    /\ ret.before = WordOf({0, 25, 26, 27, 31})
    /\ Len(regLog) = 2
    /\ reg58 = WordOf({0, 25, 26, 27, 31})

\* C4: setTriggerHoldoff(value) with firmware below "30.04" fails with the
\* unsupported-firmware error carrying the required and the actual version
\* strings, and neither reads nor writes register 58.
C4_SetRejectsOldFirmware ==
    (ret.op = "set" /\ firmware \in BelowMinimumFirmware)
        => /\ ret.outcome = "raise"
           /\ ret.error.type = "RuntimeError"
           /\ ret.error.required = StrVal(<<"3", "0", ".", "0", "4">>)
           /\ ret.error.actual = firmware
           /\ regLog = <<>>
           /\ reg58 = ret.before

\* setTriggerHoldoff(true) has been refused on firmware "4.5", which is below
\* the minimum numerically though not as a string.
C4_Witness ==
    /\ ret.op = "set"
    /\ ret.arg = TRUE
    /\ firmware = StrVal(<<"4", ".", "5">>)
    /\ ret.outcome = "raise"
    /\ ret.error.actual = firmware

(***************************************************************************)
(* Claims about the controller                                             *)
(***************************************************************************)
\* The latest call was a read accessor that returned
ReadReturned == last.op \in {"numpy", "numba"} /\ last.outcome = "return"

\* What a read accessor called in the current state would give its caller:
\* the error it raises, or the two arrays it returns
AccessorResult(strategy, copy) ==
    LET conv == Convert(strategy, heap)
    IN  IF conv.error # "none"
        THEN [error |-> conv.error, a |-> <<>>, b |-> <<>>]
        ELSE LET r == ReturnArrays(conv.heap, copy)
             IN  [error |-> "none", a |-> r.heap[r.a], b |-> r.heap[r.b]]

\* C5: for the same RawBuffer contents and geometry the numpy and the numba
\* accessor return the same channel A and channel B arrays, for every
\* records_per_buffer the validator admits (0 included) and both copy flags.
C5_StrategiesAgree ==
    buffer # 0 =>
        \A copy \in BOOLEAN :
            AccessorResult("numpy", copy) = AccessorResult("numba", copy)

\* voltage(c) = (c - 32760) / 81900.0
ReferenceVoltage(c) == [num |-> c - 32760, den |-> 81900]

\* The cell [r][s] of a channel array holds voltage(raw[(r*spr + s)*2 + c])
CellsConverted(arr, raw, c) ==
    /\ arr.shape = <<records_per_buffer, samples_per_record>>
    /\ \A r \in 0 .. (records_per_buffer - 1), s \in 0 .. (samples_per_record - 1) :
           arr.data[r * samples_per_record + s] =
               ReferenceVoltage(raw.data[(r * samples_per_record + s) * 2 + c])

\* C6: a conversion call leaves in channel A [r][s] the voltage of
\* raw[(r*spr + s)*2] and in channel B [r][s] that of raw[(r*spr + s)*2 + 1],
\* for every record r and sample s; every cell is written, and every raw
\* element is used for exactly one cell.
C6_ConversionFormula ==
    ReadReturned =>
        /\ \A copy \in BOOLEAN :
               LET r == ReturnArrays(heap, copy)
               IN  /\ CellsConverted(r.heap[r.a], heap[buffer], 0)
                   /\ CellsConverted(r.heap[r.b], heap[buffer], 1)
        /\ LET cells == (0 .. (records_per_buffer - 1))
                            \X (0 .. (samples_per_record - 1)) \X {0, 1}
               used(cell) == RawIndex(cell[1], cell[2], samples_per_record) + cell[3]
           IN  /\ \A x \in cells, y \in cells : used(x) = used(y) => x = y
               /\ {used(x) : x \in cells} = DOMAIN heap[buffer].data

\* A 2 x 2 geometry after one delivery of [32760, 32760, 32840, 32680, ...]:
\* channel A record 0 sample 1 is 80 / 81900, channel B record 1 sample 1 is
\* -240 / 81900.
C6_Witness ==
    /\ ReadReturned
    /\ records_per_buffer = 2
    /\ samples_per_record = 2
    /\ delivered = SetToBag({PatternA(8)})
    /\ heap[cha_A_buffer].data[1] = [num |-> 80, den |-> 81900]
    /\ heap[cha_B_buffer].data[3] = [num |-> -240, den |-> 81900]

RECURSIVE SumOver(_, _)
SumOver(ds, k) ==
    IF ds = {} THEN 0
    ELSE LET d == CHOOSE x \in ds : TRUE
         IN  CopiesIn(d, delivered) * d.data[k] + SumOver(ds \ {d}, k)

\* C7: after pre_start_capture and any deliveries of buffers of the
\* geometry's length, each RawBuffer[k] is the sum of delivered[k] over the
\* deliveries since the latest pre_start_capture, whatever their order and
\* buffer_number.
C7_RawBufferIsSum ==
    (buffer # 0 /\ \A d \in BagToSet(delivered) : d.shape = heap[buffer].shape)
        => \A k \in DOMAIN heap[buffer].data :
               heap[buffer].data[k] = SumOver(BagToSet(delivered), k)

\* The same buffer delivered twice: RawBuffer[2] is twice 32840.
C7_Witness ==
    /\ buffer # 0
    /\ CopiesIn(PatternA(8), delivered) = 2
    /\ heap[buffer].data[2] = 65680

\* C8: an array returned with copy=False is the session's own channel buffer,
\* so right after any later accessor call every such array of the session,
\* the first returned as much as the latest, holds the conversion of the
\* current RawBuffer and nothing else.
C8_NonCopyAliases ==
    \A i \in 1 .. Len(held) :
        (~held[i].copy /\ ~held[i].stale)
            => /\ held[i].a = cha_A_buffer
               /\ held[i].b = cha_B_buffer
               /\ ReadReturned =>
                      /\ CellsConverted(heap[held[i].a], heap[buffer], 0)
                      /\ CellsConverted(heap[held[i].b], heap[buffer], 1)

\* Two copy=False results of one session are held, a delivery came between
\* the two calls, and the second call has just returned.
C8_Witness ==
    /\ Len(held) = 2
    /\ ~held[1].copy /\ ~held[1].stale /\ ~held[1].latest
    /\ ~held[2].copy /\ ~held[2].stale /\ held[2].latest
    /\ ReadReturned
    /\ BagCardinality(delivered) = 2

\* The results the caller held before a step and still holds after it: an
\* accessor call that fills the window drops the oldest
DroppedByStep ==
    IF last'.op \in {"numpy", "numba"} /\ last'.outcome = "return"
           /\ Len(held') = Len(held)
    THEN 1 ELSE 0

\* C9: the arrays returned with copy=True keep their values through every
\* later delivery, accessor call and pre_start_capture (and through writes
\* into other results), and a write into them changes neither the session's
\* channel buffers nor RawBuffer.
C9_CopiesIndependent ==
    [][ /\ \A i \in (1 + DroppedByStep) .. Len(held) :
               (held[i].copy /\ ~(last'.op = "caller_write" /\ last'.target = i))
                   => /\ held'[i - DroppedByStep].copy
                      /\ heap'[held'[i - DroppedByStep].a] = heap[held[i].a]
                      /\ heap'[held'[i - DroppedByStep].b] = heap[held[i].b]
        /\ (last'.op = "caller_write" /\ held[last'.target].copy)
               => /\ heap'[buffer'] = heap[buffer]
                  /\ heap'[cha_A_buffer'] = heap[cha_A_buffer]
                  /\ heap'[cha_B_buffer'] = heap[cha_B_buffer]
      ]_vars

\* A copy is held from before the latest delivery, an accessor has since
\* rewritten the session's channel buffers, and the copy differs from them.
C9_Witness ==
    /\ Len(held) = 2
    /\ held[1].copy /\ ~held[1].latest /\ ~held[1].stale
    /\ ReadReturned
    /\ heap[held[1].a].data # heap[cha_A_buffer].data
    /\ heap[held[1].b].data # heap[cha_B_buffer].data

\* C10: handle_buffer called while the driver is not acquiring (before
\* pre_start_capture, between pre_start_capture and pre_acquire, or after
\* post_acquire of an earlier acquisition) fails and accumulates nothing.
C10_DeliveryOutsideAcquiringFails ==
    [][ (last'.op = "handle_buffer" /\ phase # "Acquiring")
            => (last'.outcome = "raise" /\ heap' = heap) ]_vars

\* C11: handle_buffer called on an allocated RawBuffer with a delivered
\* buffer whose length is not samples_per_record * records_per_buffer * 2
\* (a delivered buffer of length 1 included) fails and leaves RawBuffer as it
\* was, accumulating nothing.
C11_LengthMismatchFails ==
    [][ \A d \in DeliveredBuffers, n \in BufferNumbers :
            ( /\ buffer # 0
              /\ Size(d) # samples_per_record * records_per_buffer * number_of_channels
              /\ handle_buffer(d, n) )
                => (last'.outcome = "raise" /\ heap' = heap) ]_vars

(***************************************************************************)
(* Claims about the driver's construction (checked under SpecConstruct)    *)
(***************************************************************************)
\* The board kinds other than the supported one, written out
OtherModels == {"ATS9360", "ATS9373", "ats9371", "ATS9371A", ""}

\* C12: constructing the driver succeeds when the hardware reports the model
\* "ATS9371" and fails with the unsupported-board error, which names the
\* model found, for every other model; the failure comes out of the
\* constructor, so no register operation was or can be made on the object.
C12_ConstructionChecksModel ==
    /\ driver.state = "none" => (ret = NoCall /\ regLog = <<>>)
    /\ driver.state = "live" => idn_model = "ATS9371"
    /\ driver.state = "failed" =>
           /\ idn_model \in OtherModels
           /\ driver.error = "Exception"
           /\ driver.found = idn_model
           /\ ret = NoCall
           /\ regLog = <<>>
           /\ ~ENABLED get_trigger_holdoff
           /\ \A value \in BOOLEAN : ~ENABLED set_trigger_holdoff(value)

\* The board reports "ATS9360" and the construction has failed.
C12_Witness ==
    /\ idn_model = "ATS9360"
    /\ driver = ConstructionFailed("ATS9360")

(***************************************************************************)
(* Claims about the controller's buffers                                   *)
(***************************************************************************)
\* The three buffers have the sizes the captured geometry gives
SessionShapes ==
    LET n == samples_per_record * records_per_buffer * 2
    IN  /\ heap[buffer].shape = <<n>>
        /\ DOMAIN heap[buffer].data = 0 .. (n - 1)
        /\ \A c \in {cha_A_buffer, cha_B_buffer} :
               /\ heap[c].shape = <<records_per_buffer, samples_per_record>>
               /\ DOMAIN heap[c].data =
                      0 .. (records_per_buffer * samples_per_record - 1)

\* C13: from pre_start_capture on, through pre_acquire, handle_buffer, both
\* accessors with either copy flag and post_acquire, RawBuffer has
\* samples_per_record * records_per_buffer * 2 elements and both channel
\* buffers have shape (records_per_buffer, samples_per_record) for the
\* geometry captured at that pre_start_capture; the three buffers stay the
\* same objects, and the captured geometry the same, until a later
\* pre_start_capture.
C13_BuffersKeepGeometry ==
    /\ [](buffer # 0 => SessionShapes)
    /\ [][ (buffer # 0 /\ last'.op # "pre_start_capture")
               => /\ buffer' = buffer
                  /\ cha_A_buffer' = cha_A_buffer
                  /\ cha_B_buffer' = cha_B_buffer
                  /\ samples_per_record' = samples_per_record
                  /\ records_per_buffer' = records_per_buffer
                  /\ heap'[buffer'].shape = heap[buffer].shape
                  /\ heap'[cha_A_buffer'].shape = heap[cha_A_buffer].shape
                  /\ heap'[cha_B_buffer'].shape = heap[cha_B_buffer].shape
          ]_vars

\* A finished acquisition of two deliveries on a 2 x 1 geometry, the
\* instrument having been set to another geometry since pre_start_capture.
C13_Witness ==
    /\ phase = "Finalized"
    /\ BagCardinality(delivered) = 2
    /\ records_per_buffer = 2
    /\ samples_per_record = 1
    /\ alazar.records_per_buffer # records_per_buffer
    /\ Size(heap[buffer]) = 4
    /\ heap[cha_A_buffer].shape = <<2, 1>>

Strategies == {"numpy", "numba"}

\* C14: both accessors with either copy flag, pre_acquire and post_acquire
\* leave every element of RawBuffer as it was (only handle_buffer and
\* pre_start_capture change it); an accessor call returns what a call in the
\* state before it was to return, what each accessor is to return is the same
\* before and after each of these steps, and where both accessors return
\* they return the same, so two accessor calls with no handle_buffer between
\* them return equal values.
C14_OnlyDeliveriesChangeRawBuffer ==
    /\ [](buffer # 0 =>
            (AccessorResult("numpy", FALSE).error = "none"
                => AccessorResult("numpy", FALSE) = AccessorResult("numba", FALSE)))
    /\ [][ (buffer # 0
               /\ last'.op \in Strategies \cup {"pre_acquire", "post_acquire"})
           => /\ buffer' = buffer
              /\ heap'[buffer'] = heap[buffer]
              /\ \A st \in Strategies, copy \in BOOLEAN :
                     (last'.op = st /\ last'.outcome = "return")
                         => AccessorResult(st, copy) =
                                [error |-> "none",
                                 a |-> heap'[cha_A_buffer'],
                                 b |-> heap'[cha_B_buffer']]
              /\ \A st \in Strategies :
                     AccessorResult(st, FALSE)' = AccessorResult(st, FALSE)
         ]_vars

\* An acquisition of one delivery has been finalized after an accessor call:
\* RawBuffer still holds the delivery, the channel buffers its conversion.
C14_Witness ==
    /\ last.op = "post_acquire"
    /\ records_per_buffer = 2
    /\ samples_per_record = 2
    /\ delivered = SetToBag({PatternB(8)})
    /\ heap[buffer].data = PatternB(8).data
    /\ heap[cha_A_buffer].data[1] = [num |-> 48 - 32760, den |-> 81900]

(***************************************************************************)
(* Claims about the parallel conversion (checked under SpecPar)            *)
(***************************************************************************)
\* Every iteration has been taken and has run to its end
Joined ==
    /\ pb_pending = {}
    /\ \A w \in Workers : pb_worker[w] = IdleWorker

\* C15: with the records shared out among the workers, the worker handling
\* record r writes only the cells [r][0 .. n_samples-1] of cha_A and cha_B
\* and reads only raw elements 2*r*n_samples .. 2*(r+1)*n_samples - 1; each
\* record is one worker's, so no two workers write the same cell; and however
\* the workers interleave, once all have finished the outputs are those of
\* the sequential loop.
C15_WorkersKeepToTheirRecords ==
    /\ \A e \in pb_log :
           /\ e.kind = "write" =>
                  /\ e.array \in {"cha_A", "cha_B"}
                  /\ e.index \in
                         (e.r * pb_n_samples) .. ((e.r + 1) * pb_n_samples - 1)
           /\ e.kind = "read" =>
                  /\ e.array = "buffer"
                  /\ e.index \in (2 * e.r * pb_n_samples)
                                     .. (2 * (e.r + 1) * pb_n_samples - 1)
    /\ \A e1 \in pb_log, e2 \in pb_log :
           /\ e1.r = e2.r => e1.worker = e2.worker
           /\ ( /\ e1.kind = "write" /\ e2.kind = "write"
                /\ e1.array = e2.array /\ e1.index = e2.index )
                  => e1.worker = e2.worker
    /\ Joined =>
           /\ pb_cha_A = ProcessBuffer(pb_buffer,
                             Zeros2D(pb_n_records, pb_n_samples), 0,
                             pb_n_records, pb_n_samples)
           /\ pb_cha_B = ProcessBuffer(pb_buffer,
                             Zeros2D(pb_n_records, pb_n_samples), 1,
                             pb_n_records, pb_n_samples)

\* Two records of two samples, converted by two workers over arrays that held
\* other values before: both have finished, and channel B record 1 sample 1
\* is -240 / 81900.
C15_Witness ==
    /\ Joined
    /\ pb_n_records = 2
    /\ pb_n_samples = 2
    /\ {e.worker : e \in pb_log} = {1, 2}
    /\ Cardinality(pb_log) = 16
    /\ pb_cha_B.data[3] = [num |-> -240, den |-> 81900]

=============================================================================
